---- MODULE Spec2Model ----
(***************************************************************************)
(* Hotel-room booking web application (Flask + SQLAlchemy, src/app.py).    *)
(*                                                                         *)
(* The state is the relational store (users, hotels, rooms, bookings), the *)
(* signed-cookie session of the requesting browser, and the response of    *)
(* the last request.  Every route handler is one action.  Text values are  *)
(* sequences of tokens; the token " " is whitespace, so that strip() and   *)
(* lower() are modelled by what they do.  Dates are day ordinals.          *)
(*                                                                         *)
(* Columns no handler branches on (city, capacity, description,            *)
(* created_at) are left out of the records.  rooms.hotel_id is the column  *)
(* create_app adds with ALTER TABLE; the Hotel table follows the data      *)
(* model of the specification, its class not being part of models.py.      *)
(*                                                                         *)
(* The server keeps no session state: the logged-in user travels in the    *)
(* cookie of each request.  One cookie, changed by login and logout,       *)
(* therefore stands for any number of browsers whose requests are served   *)
(* one after the other.                                                    *)
(*                                                                         *)
(* Spec is the whole site with requests served one at a time, SpecEngine   *)
(* the booking engine over every date field and two rooms, SpecIndex that  *)
(* engine with the room listing of the front page, SpecConc the booking    *)
(* handler run by concurrent workers.                                      *)
(***************************************************************************)
EXTENDS Integers, Sequences, FiniteSets, TLC

VARIABLES users, hotels, rooms, bookings, session, resp, inflight

vars == <<users, hotels, rooms, bookings, session, resp, inflight>>

store == <<users, hotels, rooms, bookings>>

---------------------------------------------------------------------------
(* Bounds of the model *)

MaxDate == 3
MaxBookingId == 2
MaxInflight == 2

---------------------------------------------------------------------------
(* Text helpers: str.strip() and str.lower() *)

WS == " "

RECURSIVE LStrip(_)
LStrip(s) == IF s # <<>> /\ Head(s) = WS THEN LStrip(Tail(s)) ELSE s

RECURSIVE RStrip(_)
RStrip(s) ==
    IF s # <<>> /\ s[Len(s)] = WS THEN RStrip(SubSeq(s, 1, Len(s) - 1)) ELSE s

Strip(s) == RStrip(LStrip(s))

LowerTok(t) ==
    CASE t = "A@X.com" -> "a@x.com"
      [] t = "Admin@Example.com" -> "admin@example.com"
      [] OTHER -> t

Lower(s) == [i \in 1..Len(s) |-> LowerTok(s[i])]

IsLower(s) == Lower(s) = s

---------------------------------------------------------------------------
(* Input domains of the requests *)

Anonymous == 0

Methods == {"GET", "POST"}

RawEmails == {<<>>, <<"a@x.com">>, <<WS, "A@X.com", WS>>}
LoginEmails == RawEmails \cup {<<"Admin@Example.com">>}
RawNames == {<<WS>>, <<"Guest">>}
Passwords == {"", "pw1"}
LoginPasswords == {"pw1", "admin123"}

Dates == 1..MaxDate
NoField == <<>>
BadDate == <<"2024-13", 45>>
DateStr(d) == <<"2024-06", d>>
DateFields == {NoField, BadDate} \cup {DateStr(d) : d \in Dates}

RoomNumbers == {<<>>, <<WS, "404">>}
RoomTypes == {<<>>, <<"Lux">>}
Prices == {0, 5000}
HotelIdInputs == {0, 1}
HotelNames == {<<>>, <<WS, "Plaza">>}

---------------------------------------------------------------------------
(* Persistence layer *)

Max(S) == CHOOSE x \in S : \A y \in S : y <= x

(* SQLite INTEGER PRIMARY KEY: the new row id is the largest id in use + 1 *)
NextId(tbl) == IF DOMAIN tbl = {} THEN 1 ELSE Max(DOMAIN tbl) + 1

Insert(tbl, row) ==
    [i \in DOMAIN tbl \cup {NextId(tbl)} |-> IF i \in DOMAIN tbl THEN tbl[i] ELSE row]

Delete(tbl, id) == [i \in DOMAIN tbl \ {id} |-> tbl[i]]

(* Query.first(): the row with the least id among the matches, 0 for None *)
First(ids) == IF ids = {} THEN 0 ELSE CHOOSE i \in ids : \A j \in ids : i <= j

generate_password_hash(password) == <<"pbkdf2", password>>

check_password_hash(pwhash, password) == pwhash = <<"pbkdf2", password>>

User(email, name, password, admin) ==
    [email |-> email, name |-> name,
     password_hash |-> generate_password_hash(password), is_admin |-> admin]

Room(number, room_type, hotel_id, price) ==
    [number |-> number, room_type |-> room_type, hotel_id |-> hotel_id,
     price_per_night |-> price]

Hotel(name) == [name |-> name]

Booking(user_id, room_id, check_in, check_out, total_price) ==
    [user_id |-> user_id, room_id |-> room_id, check_in |-> check_in,
     check_out |-> check_out, total_price |-> total_price]

---------------------------------------------------------------------------
(* Responses *)

(* The response of a request: the flashed notice, the page rendered or the *)
(* redirect target, and for a cancel request the booking id of its path    *)
RespOn(flash, page, id) == [flash |-> flash, page |-> page, id |-> id]

Resp(flash, page) == RespOn(flash, page, 0)

(* flask_login.login_required with login_view = "login" *)
is_authenticated(s) == s # Anonymous /\ s \in DOMAIN users

Unauthorized == Resp("please_log_in", "redirect:login")

Forbidden == Resp("insufficient_rights", "redirect:index")

NotFound == Resp("none", "404")

is_admin(s) == users[s].is_admin

---------------------------------------------------------------------------
(* Seed data and the initial state *)

SeedHotels == <<Hotel(<<"Otel", WS, "Tsentr">>), Hotel(<<"Gorodskoy">>)>>

SeedRooms ==
    <<Room(<<"101">>, <<"Standart">>, 1, 4500),
      Room(<<"202">>, <<"Deluxe">>, 1, 7200),
      Room(<<"301">>, <<"Standart">>, 2, 3800)>>

Init ==
    /\ users = <<>>
    /\ hotels = SeedHotels
    /\ rooms = SeedRooms
    /\ bookings = <<>>
    /\ session = Anonymous
    /\ resp = Resp("none", "none")
    /\ inflight = {}

---------------------------------------------------------------------------
(* create_admin.py *)

AdminEmail == <<"admin@example.com">>

create_admin ==
    /\ First({i \in DOMAIN users : users[i].email = AdminEmail}) = 0
    /\ users' = Insert(users, User(AdminEmail, <<"Admin">>, "admin123", TRUE))
    /\ resp' = Resp("none", "created")
    /\ UNCHANGED <<hotels, rooms, bookings, session, inflight>>

---------------------------------------------------------------------------
(* Credential management: /register, /login, /logout *)

NormalizeEmailNoFold(raw) == Strip(raw)

NormalizeEmail(raw) == Lower(Strip(raw))

FindUserByEmail(us, email) == First({i \in DOMAIN us : us[i].email = email})

RegisterOutcome(us, raw_email, raw_name, password) ==
    LET email == NormalizeEmail(raw_email)
        name == Strip(raw_name)
    IN  IF email = <<>> \/ password = "" \/ name = <<>> THEN "fill_all_fields"
        ELSE IF FindUserByEmail(us, email) # 0 THEN "email_exists"
        ELSE "registered"

register(method, raw_email, raw_name, password) ==
    LET out == IF method = "POST"
               THEN RegisterOutcome(users, raw_email, raw_name, password)
               ELSE "none"
    IN  /\ users' = IF out = "registered"
                    THEN Insert(users, User(NormalizeEmail(raw_email),
                                            Strip(raw_name), password, FALSE))
                    ELSE users
        /\ resp' = IF out = "registered"
                   THEN Resp(out, "redirect:login")
                   ELSE Resp(out, "auth/register.html")
        /\ UNCHANGED <<hotels, rooms, bookings, session, inflight>>

(* The user the POST logs in, 0 when the credentials are refused *)
LoginUser(us, raw_email, password) ==
    LET user == FindUserByEmail(us, NormalizeEmail(raw_email))
    IN  IF user # 0 /\ check_password_hash(us[user].password_hash, password)
        THEN user ELSE 0

LoginResponseEnumerating(us, raw_email, password) ==
    IF LoginUser(us, raw_email, password) # 0
    THEN Resp("logged_in", "redirect:next_or_index")
    ELSE IF FindUserByEmail(us, NormalizeEmail(raw_email)) = 0
    THEN Resp("unknown_email", "auth/login.html")
    ELSE Resp("wrong_password", "auth/login.html")

LoginResponse(us, raw_email, password) ==
    IF LoginUser(us, raw_email, password) # 0
    THEN Resp("logged_in", "redirect:next_or_index")
    ELSE Resp("invalid_email_or_password", "auth/login.html")

login(method, raw_email, password) ==
    /\ session' = IF method = "POST" /\ LoginUser(users, raw_email, password) # 0
                  THEN LoginUser(users, raw_email, password)
                  ELSE session
    /\ resp' = IF method = "POST"
               THEN LoginResponse(users, raw_email, password)
               ELSE Resp("none", "auth/login.html")
    /\ UNCHANGED <<users, hotels, rooms, bookings, inflight>>

logout ==
    /\ IF is_authenticated(session)
       THEN session' = Anonymous /\ resp' = Resp("logged_out", "redirect:index")
       ELSE session' = session /\ resp' = Unauthorized
    /\ UNCHANGED <<users, hotels, rooms, bookings, inflight>>

---------------------------------------------------------------------------
(* Booking engine: /book/<room_id>, /my-bookings, /my-bookings/<id>/delete *)

(* datetime.strptime(field, "%Y-%m-%d").date(): the day of 2024-06, or     *)
(* ParseError for the TypeError of a missing field and for a ValueError    *)
ParseError == 0

strptime(field) ==
    IF Len(field) = 2 /\ field[1] = "2024-06" /\ field[2] \in 1..30
    THEN field[2] ELSE ParseError

(* Variants of the definitions below that a slip in the code would give    *)
OverlappingStartInside(bk, room_id, check_in, check_out) ==
    {i \in DOMAIN bk : /\ bk[i].room_id = room_id
                       /\ bk[i].check_in >= check_in
                       /\ bk[i].check_in < check_out}

OverlappingClosed(bk, room_id, check_in, check_out) ==
    {i \in DOMAIN bk : /\ bk[i].room_id = room_id
                       /\ bk[i].check_in <= check_out
                       /\ bk[i].check_out >= check_in}

ValidRangeNonStrict(check_in, check_out) == ~(check_in > check_out)

TotalPriceInclusive(check_in, check_out, price_per_night) ==
    (check_out - check_in + 1) * price_per_night

FindBookingAnyOwner(bk, booking_id, user_id) ==
    IF booking_id \in DOMAIN bk THEN booking_id ELSE 0

FindOwnBookingAnyId(bk, booking_id, user_id) ==
    IF DOMAIN bk = {} THEN 0
    ELSE First({i \in DOMAIN bk : bk[i].user_id = user_id})

(* The filter of the overlap query: rows of the room that start before the *)
(* requested check-out and end after the requested check-in                *)
Overlapping(bk, room_id, check_in, check_out) ==
    {i \in DOMAIN bk : /\ bk[i].room_id = room_id
                       /\ bk[i].check_in < check_out
                       /\ bk[i].check_out > check_in}

ValidRange(check_in, check_out) == ~(check_in >= check_out)

TotalPrice(check_in, check_out, price_per_night) ==
    (check_out - check_in) * price_per_night

(* The branch of the POST handler taken for the form fields *)
BookOutcome(bk, room_id, in_field, out_field) ==
    LET check_in == strptime(in_field)
        check_out == strptime(out_field)
    IN  IF check_in = ParseError \/ check_out = ParseError THEN "bad_dates"
        ELSE IF ~ValidRange(check_in, check_out) THEN "checkout_must_follow_checkin"
        ELSE IF First(Overlapping(bk, room_id, check_in, check_out)) # 0
             THEN "already_booked"
        ELSE "booking_created"

NewBooking(user_id, rms, room_id, in_field, out_field) ==
    Booking(user_id, room_id, strptime(in_field), strptime(out_field),
            TotalPrice(strptime(in_field), strptime(out_field),
                       rms[room_id].price_per_night))

book_room(method, room_id, in_field, out_field) ==
    /\ UNCHANGED <<users, hotels, rooms, session, inflight>>
    /\ IF ~is_authenticated(session)
       THEN resp' = Unauthorized /\ UNCHANGED bookings
       ELSE IF room_id \notin DOMAIN rooms
       THEN resp' = NotFound /\ UNCHANGED bookings
       ELSE IF method = "GET"
       THEN resp' = Resp("none", "booking/book_room.html")
            /\ UNCHANGED bookings
       ELSE LET out == BookOutcome(bookings, room_id, in_field, out_field)
            IN  IF out = "booking_created"
                THEN /\ NextId(bookings) <= MaxBookingId
                     /\ bookings' = Insert(bookings,
                            NewBooking(session, rooms, room_id, in_field, out_field))
                     /\ resp' = Resp(out, "redirect:my_bookings")
                ELSE /\ resp' = Resp(out, "booking/book_room.html")
                     /\ UNCHANGED bookings

my_bookings ==
    /\ resp' = IF is_authenticated(session)
               THEN Resp("none", "booking/my_bookings.html")
               ELSE Unauthorized
    /\ UNCHANGED <<users, hotels, rooms, bookings, session, inflight>>

(* Booking.query.filter_by(id=booking_id, user_id=current_user.id).first() *)
FindOwnBooking(bk, booking_id, user_id) ==
    First({i \in DOMAIN bk : i = booking_id /\ bk[i].user_id = user_id})

delete_booking(booking_id) ==
    /\ UNCHANGED <<users, hotels, rooms, session, inflight>>
    /\ IF ~is_authenticated(session)
       THEN resp' = Unauthorized /\ UNCHANGED bookings
       ELSE IF FindOwnBooking(bookings, booking_id, session) = 0
       THEN /\ resp' = RespOn("booking_not_found", "redirect:my_bookings", booking_id)
            /\ UNCHANGED bookings
       ELSE /\ bookings' = Delete(bookings, FindOwnBooking(bookings, booking_id, session))
            /\ resp' = RespOn("booking_deleted", "redirect:my_bookings", booking_id)

---------------------------------------------------------------------------
(* Room listing with the availability count: / *)

HotelFilters == {0, 1, 2}

ActiveRoomIdsInclusive(bk, today) ==
    {bk[i].room_id : i \in {j \in DOMAIN bk :
                               bk[j].check_in <= today /\ bk[j].check_out >= today}}

(* Room.query, filtered by hotel when the query parameter is a non-zero int *)
SelectedRooms(rms, selected_hotel_id) ==
    IF selected_hotel_id # 0
    THEN {r \in DOMAIN rms : rms[r].hotel_id = selected_hotel_id}
    ELSE DOMAIN rms

(* The one query over all bookings: distinct room ids active today *)
ActiveRoomIds(bk, today) ==
    {bk[i].room_id : i \in {j \in DOMAIN bk :
                               bk[j].check_in <= today /\ bk[j].check_out > today}}

AvailableCount(room_ids, active_room_ids) ==
    Cardinality({r \in room_ids : r \notin active_room_ids})

IndexPage(total_rooms, available_count) ==
    [flash |-> "none", page |-> "index.html", id |-> 0,
     total_rooms |-> total_rooms, available_count |-> available_count]

index(selected_hotel_id, today) ==
    /\ resp' = IndexPage(Cardinality(SelectedRooms(rooms, selected_hotel_id)),
                         AvailableCount(SelectedRooms(rooms, selected_hotel_id),
                                        ActiveRoomIds(bookings, today)))
    /\ UNCHANGED <<users, hotels, rooms, bookings, session, inflight>>

---------------------------------------------------------------------------
(* Administration: /admin/... *)

(* The guard every admin view opens with: login_required, then is_admin *)
AdminGateLoginOnly(s) ==
    IF ~is_authenticated(s) THEN Unauthorized ELSE Resp("pass", "pass")

AdminGate(s) ==
    IF ~is_authenticated(s) THEN Unauthorized
    ELSE IF ~is_admin(s) THEN Forbidden
    ELSE Resp("pass", "pass")

Passes(s) == AdminGate(s) = Resp("pass", "pass")

ServerError == Resp("IntegrityError", "500")

AdminListing(page) ==
    /\ resp' = IF Passes(session) THEN Resp("none", page) ELSE AdminGate(session)
    /\ UNCHANGED <<users, hotels, rooms, bookings, session, inflight>>

admin_rooms == AdminListing("admin/rooms.html")

admin_bookings == AdminListing("admin/bookings.html")

admin_users == AdminListing("admin/users.html")

admin_hotels == AdminListing("admin/hotels.html")

RoomFieldsMissing(number, room_type, price, hotel_id) ==
    number = <<>> \/ room_type = <<>> \/ price <= 0 \/ hotel_id = 0

(* UNIQUE constraint of rooms.number, checked by the store at commit *)
RoomNumberTaken(rms, number, except) ==
    \E i \in DOMAIN rms : i # except /\ rms[i].number = number

admin_create_room(method, raw_number, raw_type, price, hotel_id) ==
    LET number == Strip(raw_number)
        room_type == Strip(raw_type)
    IN  /\ UNCHANGED <<users, hotels, bookings, session, inflight>>
        /\ IF ~Passes(session)
           THEN resp' = AdminGate(session) /\ UNCHANGED rooms
           ELSE IF method = "GET"
           THEN resp' = Resp("none", "admin/room_form.html") /\ UNCHANGED rooms
           ELSE IF RoomFieldsMissing(number, room_type, price, hotel_id)
           THEN resp' = Resp("fill_required_fields", "admin/room_form.html")
                /\ UNCHANGED rooms
           ELSE IF RoomNumberTaken(rooms, number, 0)
           THEN resp' = ServerError /\ UNCHANGED rooms
           ELSE /\ rooms' = Insert(rooms, Room(number, room_type, hotel_id, price))
                /\ resp' = Resp("room_created", "redirect:admin_rooms")

admin_edit_room(method, room_id, raw_number, raw_type, price, hotel_id) ==
    LET number == Strip(raw_number)
        room_type == Strip(raw_type)
    IN  /\ UNCHANGED <<users, hotels, bookings, session, inflight>>
        /\ IF ~Passes(session)
           THEN resp' = AdminGate(session) /\ UNCHANGED rooms
           ELSE IF room_id \notin DOMAIN rooms
           THEN resp' = NotFound /\ UNCHANGED rooms
           ELSE IF method = "GET"
           THEN resp' = Resp("none", "admin/room_form.html") /\ UNCHANGED rooms
           ELSE IF RoomFieldsMissing(number, room_type, price, hotel_id)
           THEN resp' = Resp("fill_required_fields", "admin/room_form.html")
                /\ UNCHANGED rooms
           ELSE IF RoomNumberTaken(rooms, number, room_id)
           THEN resp' = ServerError /\ UNCHANGED rooms
           ELSE /\ rooms' = [rooms EXCEPT ![room_id] =
                                Room(number, room_type, hotel_id, price)]
                /\ resp' = Resp("room_updated", "redirect:admin_rooms")

HotelNameTaken(hs, name, except) ==
    First({i \in DOMAIN hs : i # except /\ hs[i].name = name}) # 0

admin_create_hotel(method, raw_name) ==
    LET name == Strip(raw_name)
    IN  /\ UNCHANGED <<users, rooms, bookings, session, inflight>>
        /\ IF ~Passes(session)
           THEN resp' = AdminGate(session) /\ UNCHANGED hotels
           ELSE IF method = "GET"
           THEN resp' = Resp("none", "admin/hotel_form.html") /\ UNCHANGED hotels
           ELSE IF name = <<>>
           THEN resp' = Resp("name_required", "admin/hotel_form.html")
                /\ UNCHANGED hotels
           ELSE IF HotelNameTaken(hotels, name, 0)
           THEN resp' = Resp("hotel_exists", "admin/hotel_form.html")
                /\ UNCHANGED hotels
           ELSE /\ hotels' = Insert(hotels, Hotel(name))
                /\ resp' = Resp("hotel_created", "redirect:admin_hotels")

admin_edit_hotel(method, hotel_id, raw_name) ==
    LET name == Strip(raw_name)
    IN  /\ UNCHANGED <<users, rooms, bookings, session, inflight>>
        /\ IF ~Passes(session)
           THEN resp' = AdminGate(session) /\ UNCHANGED hotels
           ELSE IF hotel_id \notin DOMAIN hotels
           THEN resp' = NotFound /\ UNCHANGED hotels
           ELSE IF method = "GET"
           THEN resp' = Resp("none", "admin/hotel_form.html") /\ UNCHANGED hotels
           ELSE IF name = <<>>
           THEN resp' = Resp("name_required", "admin/hotel_form.html")
                /\ UNCHANGED hotels
           ELSE IF HotelNameTaken(hotels, name, hotel_id)
           THEN resp' = Resp("hotel_exists", "admin/hotel_form.html")
                /\ UNCHANGED hotels
           ELSE /\ hotels' = [hotels EXCEPT ![hotel_id] = Hotel(name)]
                /\ resp' = Resp("hotel_updated", "redirect:admin_hotels")

-------------------------------------------------------------------------------------------------------------------------------------------------
(* Requests served one at a time.  A path id is an existing row or the     *)
(* first unused id.                                                        *)

Ids(tbl) == DOMAIN tbl \cup {NextId(tbl)}

AuthRequests ==
    \/ create_admin
    \/ register("GET", <<>>, <<>>, "")
    \/ \E e \in RawEmails, n \in RawNames, p \in Passwords : register("POST", e, n, p)
    \/ login("GET", <<>>, "")
    \/ \E e \in LoginEmails, p \in LoginPasswords : login("POST", e, p)
    \/ logout

BookingRequests(roomIds, fields) ==
    \/ \E r \in roomIds \cup {NextId(rooms)} : book_room("GET", r, NoField, NoField)
    \/ \E r \in roomIds, ci \in fields, co \in fields : book_room("POST", r, ci, co)
    \/ book_room("POST", NextId(rooms), NoField, NoField)
    \/ my_bookings
    \/ \E b \in Ids(bookings) : delete_booking(b)

RoomRequests(roomIds) ==
    \/ admin_create_room("GET", <<>>, <<>>, 0, 0)
    \/ \E n \in RoomNumbers, t \in RoomTypes, p \in Prices, h \in HotelIdInputs :
          admin_create_room("POST", n, t, p, h)
    \/ \E r \in roomIds : admin_edit_room("GET", r, <<>>, <<>>, 0, 0)
    \/ \E r \in roomIds, n \in RoomNumbers, t \in RoomTypes, p \in Prices,
          h \in HotelIdInputs : admin_edit_room("POST", r, n, t, p, h)

HotelRequests ==
    \/ admin_create_hotel("GET", <<>>)
    \/ \E n \in HotelNames : admin_create_hotel("POST", n)
    \/ \E h \in Ids(hotels) : admin_edit_hotel("GET", h, <<>>)
    \/ \E h \in Ids(hotels), n \in HotelNames : admin_edit_hotel("POST", h, n)

ListingRequests == admin_rooms \/ admin_bookings \/ admin_users \/ admin_hotels

(* The whole site; bookings of one room over one pair of days *)
Next ==
    \/ AuthRequests
    \/ BookingRequests({1}, {NoField, DateStr(1), DateStr(2)})
    \/ RoomRequests(Ids(rooms))
    \/ HotelRequests
    \/ ListingRequests

Spec == Init /\ [][Next]_vars

(* The booking engine: every date field, two rooms, the price of room 1 *)
NextEngine ==
    \/ AuthRequests
    \/ BookingRequests({1, 2}, DateFields \ {NoField})
    \/ \E n \in RoomNumbers, t \in RoomTypes, p \in Prices, h \in HotelIdInputs :
          admin_edit_room("POST", 1, n, t, p, h)

SpecEngine == Init /\ [][NextEngine]_vars

(* The booking engine with the room listing, on any day as today *)
NextIndex ==
    \/ NextEngine
    \/ \E h \in HotelFilters, t \in Dates : index(h, t)

SpecIndex == Init /\ [][NextIndex]_vars

---------------------------------------------------------------------------
(* Requests served by concurrent workers: the POST of book_room is two     *)
(* steps against the store, the overlap query and the insert with its      *)
(* commit, and other requests may run between them.                        *)

Workers == 1..MaxInflight

Pending(w, user_id, rms, room_id, in_field, out_field) ==
    [worker |-> w, booking |-> NewBooking(user_id, rms, room_id, in_field, out_field)]

(* From the start of the handler to the result of the overlap query *)
book_room_query(w, room_id, in_field, out_field) ==
    /\ \A q \in inflight : q.worker # w
    /\ is_authenticated(session)
    /\ room_id \in DOMAIN rooms
    /\ UNCHANGED <<users, hotels, rooms, bookings, session>>
    /\ LET out == BookOutcome(bookings, room_id, in_field, out_field)
       IN  IF out = "booking_created"
           THEN /\ inflight' = inflight \cup
                      {Pending(w, session, rooms, room_id, in_field, out_field)}
                /\ resp' = resp
           ELSE /\ resp' = Resp(out, "booking/book_room.html")
                /\ UNCHANGED inflight

(* db.session.add(booking); db.session.commit() and the redirect *)
book_room_commit(w) ==
    \E q \in inflight :
        /\ q.worker = w
        /\ NextId(bookings) <= MaxBookingId
        /\ bookings' = Insert(bookings, q.booking)
        /\ inflight' = inflight \ {q}
        /\ resp' = Resp("booking_created", "redirect:my_bookings")
        /\ UNCHANGED <<users, hotels, rooms, session>>

NextConc ==
    \/ AuthRequests
    \/ \E w \in Workers, r \in {1}, ci \in DateFields, co \in DateFields :
          book_room_query(w, r, ci, co)
    \/ \E w \in Workers : book_room_commit(w)
    \/ \E b \in Ids(bookings) : delete_booking(b)

SpecConc == Init /\ [][NextConc]_vars

---------------------------------------------------------------------------
(* Properties of the booking engine *)

Nights(b) == b.check_out - b.check_in

Overlap(a, b) == a.check_in < b.check_out /\ b.check_in < a.check_out

(* C1: with requests served one at a time, any two distinct stored bookings *)
(* of one room have non-overlapping half-open intervals, and every stored  *)
(* booking has check_in < check_out.                                       *)
C1_NoOverlap ==
    /\ \A a \in DOMAIN bookings, b \in DOMAIN bookings :
          (a # b /\ bookings[a].room_id = bookings[b].room_id)
             => ~Overlap(bookings[a], bookings[b])
    /\ \A a \in DOMAIN bookings : bookings[a].check_in < bookings[a].check_out

(* Two bookings of one room are stored, the later one just admitted *)
C1_Witness ==
    /\ \E a \in DOMAIN bookings, b \in DOMAIN bookings :
          a # b /\ bookings[a].room_id = bookings[b].room_id
    /\ resp.flash = "booking_created"

(* C2: two concurrent booking requests of one room with overlapping ranges *)
(* never both succeed: no state holds two overlapping bookings of a room.  *)
C2_NoConcurrentDoubleBooking ==
    \A a \in DOMAIN bookings, b \in DOMAIN bookings :
        (a # b /\ bookings[a].room_id = bookings[b].room_id)
           => (bookings[a].check_out <= bookings[b].check_in
               \/ bookings[b].check_out <= bookings[a].check_in)

StoredAs(bk, id, user_id, room_id, check_in, check_out) ==
    /\ bk[id].user_id = user_id
    /\ bk[id].room_id = room_id
    /\ bk[id].check_in = check_in
    /\ bk[id].check_out = check_out

(* C3: a request with two valid dates and check-in before check-out is     *)
(* rejected as a date-range conflict exactly when a stored booking e of    *)
(* the same room has e.check_in < checkOut and e.check_out > checkIn;      *)
(* otherwise the booking is stored.                                        *)
C3_ConflictIffOverlap ==
    [][\A r \in DOMAIN rooms, ci \in Dates, co \in Dates :
          (/\ is_authenticated(session)
           /\ ci < co
           /\ book_room("POST", r, DateStr(ci), DateStr(co)))
          => IF \E e \in DOMAIN bookings :
                   /\ bookings[e].room_id = r
                   /\ bookings[e].check_in < co
                   /\ bookings[e].check_out > ci
             THEN /\ resp' = Resp("already_booked", "booking/book_room.html")
                  /\ bookings' = bookings
             ELSE /\ resp' = Resp("booking_created", "redirect:my_bookings")
                  /\ \E id \in DOMAIN bookings' \ DOMAIN bookings :
                        /\ StoredAs(bookings', id, session, r, ci, co)
                        /\ DOMAIN bookings' = DOMAIN bookings \cup {id}
                  /\ \A e \in DOMAIN bookings : bookings'[e] = bookings[e]]_vars

(* A booking was admitted that starts on the check-out day of another      *)
(* booking of its room, while another room is booked over the same days    *)
C3_Witness ==
    /\ resp.flash = "booking_created"
    /\ \E a \in DOMAIN bookings, b \in DOMAIN bookings :
          /\ bookings[a].room_id = bookings[b].room_id
          /\ bookings[a].check_out = bookings[b].check_in

(* C4: a request with two valid dates and check-in on or after check-out   *)
(* fails as an invalid date range whatever the room's bookings are, and    *)
(* leaves the store unchanged.                                             *)
C4_InvalidRange ==
    [][\A r \in DOMAIN rooms, ci \in Dates, co \in Dates :
          (/\ is_authenticated(session)
           /\ ci >= co
           /\ book_room("POST", r, DateStr(ci), DateStr(co)))
          => /\ resp' = Resp("checkout_must_follow_checkin", "booking/book_room.html")
             /\ store' = store]_vars

(* An invalid range was refused for a room that has bookings *)
C4_Witness ==
    /\ resp.flash = "checkout_must_follow_checkin"
    /\ \E b \in DOMAIN bookings : bookings[b].room_id = 1

(* C5: a booking is stored with total_price = nights * the price its room  *)
(* has at that moment, and no later request changes a stored booking: it   *)
(* is only deleted.                                                        *)
C5_TotalPrice ==
    [][\A id \in DOMAIN bookings' :
          IF id \in DOMAIN bookings
          THEN bookings'[id] = bookings[id]
          ELSE bookings'[id].total_price =
                 Nights(bookings'[id]) * rooms[bookings'[id].room_id].price_per_night]_vars

(* An administrator changed the price of a room that has a booking *)
C5_Witness ==
    \E id \in DOMAIN bookings :
        /\ bookings[id].total_price #
              Nights(bookings[id]) * rooms[bookings[id].room_id].price_per_night
        /\ resp.flash = "room_updated"

(* C6: a cancel by an authenticated user who does not own the booking gets *)
(* the response of a booking id that does not exist and changes nothing;   *)
(* a booking leaves the store only by a cancel request of its owner.       *)
C6_OnlyOwnerCancels ==
    [][/\ \A b \in Ids(bookings) :
            (/\ is_authenticated(session)
             /\ delete_booking(b)
             /\ (b \notin DOMAIN bookings \/ bookings[b].user_id # session))
            => /\ resp' = RespOn("booking_not_found", "redirect:my_bookings", b)
               /\ store' = store
       /\ \A b \in DOMAIN bookings :
            b \notin DOMAIN bookings'
               => session = bookings[b].user_id /\ delete_booking(b)]_vars

(* An administrator asked to cancel a guest's booking and was refused *)
C6_Witness ==
    /\ resp.flash = "booking_not_found"
    /\ resp.id \in DOMAIN bookings
    /\ is_authenticated(session)
    /\ is_admin(session)
    /\ bookings[resp.id].user_id # session

(* C7: the owner's cancel removes exactly that booking and nothing else;   *)
(* the same cancel repeated by the same user reports not-found and leaves  *)
(* the store as the first cancel left it.                                  *)
C7_CancelIdempotent ==
    [][/\ \A b \in DOMAIN bookings :
            (delete_booking(b) /\ bookings[b].user_id = session)
            => /\ resp' = RespOn("booking_deleted", "redirect:my_bookings", b)
               /\ bookings' = [i \in DOMAIN bookings \ {b} |-> bookings[i]]
               /\ UNCHANGED <<users, hotels, rooms>>
       /\ (resp.flash = "booking_deleted" /\ delete_booking(resp.id))
            => /\ resp' = RespOn("booking_not_found", "redirect:my_bookings", resp.id)
               /\ store' = store]_vars

(* A cancel found nothing under an id while the user's other booking stays *)
C7_Witness ==
    /\ resp.flash = "booking_not_found"
    /\ resp.id \notin DOMAIN bookings
    /\ \E b \in DOMAIN bookings : bookings[b].user_id = session

---------------------------------------------------------------------------
(* Properties of registration, login and the access-control guard *)

EmailInUse(us, raw_email) ==
    \E i \in DOMAIN us : us[i].email = Lower(Strip(raw_email))

(* C8 as stated: every registration under an email already in use, trimmed *)
(* and lower-cased, is refused as a duplicate and creates no user.         *)
C8_DuplicateAlwaysRefusedAsDuplicate ==
    [][\A e \in RawEmails, n \in RawNames, p \in Passwords :
          (register("POST", e, n, p) /\ EmailInUse(users, e))
          => /\ resp' = Resp("email_exists", "auth/register.html")
             /\ users' = users]_vars

(* C8 amended: a registration under an email already in use creates no     *)
(* user and returns to the form, refused as a duplicate when name and      *)
(* password are given and as a validation error when one is empty; stored  *)
(* emails are lowercase and pairwise distinct; a user created by           *)
(* registration is no administrator.                                       *)
C8_DuplicateEmail ==
    [][/\ \A e \in RawEmails, n \in RawNames, p \in Passwords :
            (register("POST", e, n, p) /\ EmailInUse(users, e))
            => /\ users' = users
               /\ resp' = IF Strip(n) # <<>> /\ p # ""
                          THEN Resp("email_exists", "auth/register.html")
                          ELSE Resp("fill_all_fields", "auth/register.html")
       /\ \A e \in RawEmails, n \in RawNames, p \in Passwords :
            (register("POST", e, n, p) /\ users' # users)
            => \E id \in DOMAIN users' \ DOMAIN users :
                  /\ DOMAIN users' = DOMAIN users \cup {id}
                  /\ users'[id].is_admin = FALSE
                  /\ \A i \in DOMAIN users : users'[i] = users[i]
       /\ \A i \in DOMAIN users', j \in DOMAIN users' :
            /\ IsLower(users'[i].email)
            /\ i # j => users'[i].email # users'[j].email]_vars

(* A registration was refused as a duplicate *)
C8_Witness == resp.flash = "email_exists" /\ users # <<>>

GenericLoginFailure == Resp("invalid_email_or_password", "auth/login.html")

Authentic(us, raw_email, password) ==
    \E i \in DOMAIN us :
        /\ us[i].email = Lower(Strip(raw_email))
        /\ us[i].password_hash = generate_password_hash(password)

(* C9: a login under an unknown email and a login under a known email with *)
(* a wrong password get one and the same response, establish no session    *)
(* and change nothing; a session is established only by a login whose      *)
(* email is stored and whose password verifies.                            *)
C9_LoginFailureGeneric ==
    [][/\ \A e \in LoginEmails, p \in LoginPasswords :
            login("POST", e, p)
            => IF Authentic(users, e, p)
               THEN /\ session' \in DOMAIN users
                    /\ users[session'].email = Lower(Strip(e))
               ELSE /\ resp' = GenericLoginFailure
                    /\ session' = session
                    /\ store' = store
       /\ (session' # session /\ session' # Anonymous)
            => \E e \in LoginEmails, p \in LoginPasswords :
                  Authentic(users, e, p) /\ login("POST", e, p)]_vars

(* A login was refused while both a guest and the administrator exist, so  *)
(* that the inputs hold known emails with a wrong password and unknown ones *)
C9_Witness ==
    /\ resp = GenericLoginFailure
    /\ Cardinality(DOMAIN users) = 2
    /\ session = Anonymous

AdminRequests == RoomRequests(Ids(rooms)) \/ HotelRequests \/ ListingRequests

SessionRequests ==
    \/ AdminRequests
    \/ BookingRequests({1}, {NoField, DateStr(1), DateStr(2)})
    \/ logout

(* C10: hotels and rooms change only in requests of an authenticated       *)
(* administrator and bookings only in requests of an authenticated user;   *)
(* an admin-only request of an authenticated non-administrator is          *)
(* redirected home, and a session-gated request of an anonymous caller is  *)
(* redirected to the login view, both with the store unchanged.            *)
C10_AccessControl ==
    [][/\ (hotels' # hotels \/ rooms' # rooms)
            => is_authenticated(session) /\ users[session].is_admin
       /\ bookings' # bookings => is_authenticated(session)
       /\ (is_authenticated(session) /\ ~users[session].is_admin /\ AdminRequests)
            => /\ resp' = Resp("insufficient_rights", "redirect:index")
               /\ store' = store
       /\ (session \notin DOMAIN users /\ SessionRequests)
            => /\ resp' = Resp("please_log_in", "redirect:login")
               /\ store' = store]_vars

(* A logged-in guest was turned away from an admin view after an           *)
(* administrator had added a room                                          *)
C10_Witness ==
    /\ resp = Resp("insufficient_rights", "redirect:index")
    /\ is_authenticated(session)
    /\ ~is_admin(session)
    /\ rooms # SeedRooms

---------------------------------------------------------------------------
(* Availability count of the room listing *)

(* The rooms that have a booking active at day d: check_in <= d < check_out *)
ActiveRooms(d) ==
    {bookings[i].room_id :
        i \in {j \in DOMAIN bookings :
                  bookings[j].check_in <= d /\ d < bookings[j].check_out}}

(* C11 as stated: for the full room list or the subset selected by the     *)
(* hotel filter, and every reference date, the available count equals      *)
(* |rooms| minus the number of distinct rooms with a booking active at the *)
(* reference date, counted over all bookings.                              *)
C11_AvailableIsTotalMinusAllActive ==
    [][\A h \in HotelFilters, t \in Dates :
          index(h, t) =>
              resp'.available_count =
                  resp'.total_rooms - Cardinality(ActiveRooms(t))]_vars

(* C11 amended: for the full room list or the subset selected by the hotel *)
(* filter, and every reference date, the listing shows |rooms| of that set *)
(* and the available count equals |rooms| minus the number of rooms of     *)
(* that set with a booking active at the reference date; for the full room *)
(* list that is |rooms| minus all distinct rooms with an active booking.   *)
C11_AvailableCount ==
    [][\A h \in HotelFilters, t \in Dates :
          index(h, t) =>
              /\ resp'.total_rooms = Cardinality(SelectedRooms(rooms, h))
              /\ resp'.available_count =
                     resp'.total_rooms
                       - Cardinality(SelectedRooms(rooms, h) \cap ActiveRooms(t))
              /\ h = 0 => resp'.available_count =
                             Cardinality(DOMAIN rooms) - Cardinality(ActiveRooms(t))
              /\ store' = store]_vars

(* The listing of one hotel's two rooms, one of them occupied today *)
C11_Witness ==
    /\ resp.page = "index.html"
    /\ resp.total_rooms = 2
    /\ resp.total_rooms < Cardinality(DOMAIN rooms)
    /\ resp.available_count = 1
    /\ bookings # <<>>

---------------------------------------------------------------------------
(* Uniqueness of hotel names and room numbers *)

NumberOfAnotherRoom(number, own) ==
    \E i \in DOMAIN rooms : i # own /\ rooms[i].number = number

NameOfAnotherHotel(name, own) ==
    \E i \in DOMAIN hotels : i # own /\ hotels[i].name = name

UniqueRoomNumbers ==
    \A i, j \in DOMAIN rooms : rooms[i].number = rooms[j].number => i = j

UniqueHotelNames ==
    \A i, j \in DOMAIN hotels : hotels[i].name = hotels[j].name => i = j

(* A recoverable refusal: the form again with a notice, nothing stored *)
DuplicateEntity ==
    /\ resp'.page \in {"admin/room_form.html", "admin/hotel_form.html"}
    /\ resp'.flash # "none"
    /\ store' = store

(* C12: an admin create or edit request with otherwise valid fields that   *)
(* would give a room the number of a different room, or a hotel the name   *)
(* of a different hotel, is refused as a recoverable DuplicateEntity with  *)
(* the store unchanged; an edit keeping the record's own number or name is *)
(* accepted; room numbers and hotel names stay pairwise distinct; and no   *)
(* admin create or edit request ends in an unhandled failure.              *)
C12_DuplicateRejectedRecoverably ==
    [][/\ \A n \in RoomNumbers, t \in RoomTypes, p \in Prices, h \in HotelIdInputs :
            /\ admin_create_room("POST", n, t, p, h) /\ Passes(session)
                   /\ ~RoomFieldsMissing(Strip(n), Strip(t), p, h)
                   /\ NumberOfAnotherRoom(Strip(n), 0)
                 => DuplicateEntity
            /\ \A r \in DOMAIN rooms :
                  admin_edit_room("POST", r, n, t, p, h) /\ Passes(session)
                     /\ ~RoomFieldsMissing(Strip(n), Strip(t), p, h)
                   => IF NumberOfAnotherRoom(Strip(n), r)
                      THEN DuplicateEntity
                      ELSE resp'.flash = "room_updated"
       /\ \A n \in HotelNames :
            /\ admin_create_hotel("POST", n) /\ Passes(session)
                   /\ Strip(n) # <<>> /\ NameOfAnotherHotel(Strip(n), 0)
                 => DuplicateEntity
            /\ \A h \in DOMAIN hotels :
                  admin_edit_hotel("POST", h, n) /\ Passes(session)
                     /\ Strip(n) # <<>>
                   => IF NameOfAnotherHotel(Strip(n), h)
                      THEN DuplicateEntity
                      ELSE resp'.flash = "hotel_updated"
       /\ (RoomRequests(Ids(rooms)) \/ HotelRequests) => resp' # ServerError
       /\ UniqueRoomNumbers' /\ UniqueHotelNames']_vars

====
